---- MODULE Spec2Model ----
(***************************************************************************)
(* Harm-assessment engine: the POST /analyze orchestrator                  *)
(* (server/src/routes/analyze.ts) and the fusion calculator                *)
(* (server/src/services/harmIndex.ts).                                     *)
(*                                                                         *)
(* JavaScript numbers are modelled as exact rationals n/d, together with   *)
(* the two non-numbers the handler can meet: undefined (a property that a  *)
(* response body does not have) and NaN (arithmetic on undefined).         *)
(* On the signal values used here (AngerLevels .. PatternLevels) the       *)
(* IEEE-754 double evaluation of the source, in its operation order,       *)
(* rounds to the same harmIndex and uncertainty as the exact arithmetic.   *)
(***************************************************************************)
EXTENDS Integers, Sequences, FiniteSets, TLC

VARIABLES
    pc,             \* position of the handler: idle, awaitAll, awaitLlm, done, pure, pureDone
    req,            \* req.body of the request being handled
    calls,          \* the five axios promises of the fan-out, by producer
    issued,         \* how many requests were sent to each producer
    fuseInput,      \* the argument computeHarmIndex was called with
    fuseCount,      \* how many times computeHarmIndex was called
    harmAssessment, \* what computeHarmIndex returned
    cnnBertResult,  \* analyze.ts local of that name
    timeseriesData, \* analyze.ts local of that name
    llm,            \* the axios promise of the /explain call
    llmReq,         \* the payload of the /explain call
    llmIssued,      \* how many /explain requests were sent
    response,       \* what was written to res
    peer,           \* the locals of a second invocation of the handler, running concurrently
    ui              \* the state of the ChatInterface component

vars == <<pc, req, calls, issued, fuseInput, fuseCount, harmAssessment,
          cnnBertResult, timeseriesData, llm, llmReq, llmIssued, response, peer, ui>>

----------------------------------------------------------------------------
(* JavaScript values *)

RECURSIVE GCD(_, _)
GCD(a, b) == IF b = 0 THEN a ELSE GCD(b, a % b)

\* the number n/d (n >= 0, d > 0), in lowest terms
R(n, d) == LET g == GCD(n, d) IN [n |-> n \div g, d |-> d \div g, k |-> "num"]

Undefined == [n |-> 0, d |-> 1, k |-> "undef"]
NaN       == [n |-> 0, d |-> 1, k |-> "nan"]
Bool(b)   == [n |-> IF b THEN 1 ELSE 0, d |-> 1, k |-> "bool"]

IsNum(x) == x.k = "num"

\* ToBoolean
Truthy(x) == x.k \in {"num", "bool"} /\ x.n # 0

\* x + y, x * y, x / y on numbers; NaN as soon as an operand is no number
Add(x, y) == IF IsNum(x) /\ IsNum(y) THEN R(x.n * y.d + y.n * x.d, x.d * y.d) ELSE NaN
Mul(x, y) == IF IsNum(x) /\ IsNum(y) THEN R(x.n * y.n, x.d * y.d) ELSE NaN
Div(x, y) == IF IsNum(x) /\ IsNum(y) THEN R(x.n * y.d, x.d * y.n) ELSE NaN

\* mutant: > taken as >=
Gt_inclusive(x, y) == IsNum(x) /\ IsNum(y) /\ x.n * y.d >= y.n * x.d

\* x <= y and x > y: false as soon as an operand is no number
Leq(x, y) == IsNum(x) /\ IsNum(y) /\ x.n * y.d <= y.n * x.d
Gt(x, y)  == IsNum(x) /\ IsNum(y) /\ x.n * y.d > y.n * x.d

\* Math.min(x, y)
MathMin(x, y) == IF IsNum(x) /\ IsNum(y) THEN (IF Leq(x, y) THEN x ELSE y) ELSE NaN

\* Math.round(x): the nearest integer, a tie going up
MathRound(x) == IF IsNum(x) THEN R((2 * x.n + x.d) \div (2 * x.d), 1) ELSE NaN

\* mutant: || without its right operand
OrElse_keepLeft(x, y) == x

\* x || y and x ?? y
OrElse(x, y)   == IF Truthy(x) THEN x ELSE y
Coalesce(x, y) == IF x.k = "undef" THEN y ELSE x

IsInteger(x) == IsNum(x) /\ x.d = 1

----------------------------------------------------------------------------
(* harmIndex.ts *)

IntentTypes == {"Informational", "Persuasive", "Action-oriented", "Alarmist", "Inciting"}
Confidences == {"High", "Medium", "Low"}
RiskLevels  == {"Low", "Medium", "High"}

\* a property read of a lookup table: undefined for a key it does not have
intentRiskMap(type) ==
    CASE type = "Informational"   -> R(1, 10)
      [] type = "Persuasive"      -> R(4, 10)
      [] type = "Action-oriented" -> R(6, 10)
      [] type = "Alarmist"        -> R(75, 100)
      [] type = "Inciting"        -> R(9, 10)
      [] OTHER                    -> Undefined

\* mutant: the table is read the other way round
evidenceConfidenceMap_inverted(conf) ==
    CASE conf = "High"   -> R(8, 10)
      [] conf = "Medium" -> R(5, 10)
      [] conf = "Low"    -> R(1, 10)
      [] OTHER           -> Undefined

evidenceConfidenceMap(conf) ==
    CASE conf = "High"   -> R(1, 10)
      [] conf = "Medium" -> R(5, 10)
      [] conf = "Low"    -> R(8, 10)
      [] OTHER           -> Undefined

AngerFactor        == R(12, 10)
FearFactor         == R(11, 10)
ExplicitCtaBonus   == R(15, 100)
ImplicitCtaBonus   == R(1, 10)
DogWhistleFactor   == R(2, 10)
ContradictionBonus == R(15, 100)

EmotionWeight == 20
IntentWeight  == 25
HistoryWeight == 20
TruthWeight   == 15
PatternWeight == 20
UncertaintyBase   == 10
UncertaintyWeight == 5
LowMax    == 30
MediumMax == 60
PanicHighAbove  == 60
UnrestHighAbove == 70

Zero == R(0, 1)
One  == R(1, 1)
Int2(n) == R(n, 1)

\* mutant: the two weighted emotions are summed, not averaged
emotionVolatilityOf_summed(emotionScores) ==
    Add(Mul(emotionScores.anger, AngerFactor), Mul(emotionScores.fear, FearFactor))

\* mutant: sadness counts as well
emotionVolatilityOf_withSadness(emotionScores) ==
    Div(Add(Add(Mul(emotionScores.anger, AngerFactor), Mul(emotionScores.fear, FearFactor)),
            emotionScores.sadness), Int2(2))

emotionVolatilityOf(emotionScores) ==
    Div(Add(Mul(emotionScores.anger, AngerFactor), Mul(emotionScores.fear, FearFactor)), Int2(2))

\* mutant: the two CTA bonuses add up
ctaBonusOf_additive(intentAnalysis) ==
    Add(IF Truthy(intentAnalysis.hasExplicitCTA) THEN ExplicitCtaBonus ELSE Zero,
        IF Truthy(intentAnalysis.hasImplicitCTA) THEN ImplicitCtaBonus ELSE Zero)

ctaBonusOf(intentAnalysis) ==
    IF Truthy(intentAnalysis.hasExplicitCTA) THEN ExplicitCtaBonus
    ELSE IF Truthy(intentAnalysis.hasImplicitCTA) THEN ImplicitCtaBonus
    ELSE Zero

intentRiskOf(intentAnalysis) ==
    MathMin(One, Add(Add(intentRiskMap(intentAnalysis.type), ctaBonusOf(intentAnalysis)),
                     Mul(intentAnalysis.dogWhistleProbability, DogWhistleFactor)))

\* mutant: contradictory sources add nothing
finalTruthUncertaintyOf_noBonus(truthVerification) ==
    MathMin(One, evidenceConfidenceMap(truthVerification.evidenceConfidence))

finalTruthUncertaintyOf(truthVerification) ==
    MathMin(One, Add(evidenceConfidenceMap(truthVerification.evidenceConfidence),
                     IF Truthy(truthVerification.contradictorySources)
                     THEN ContradictionBonus ELSE Zero))

\* mutant: the tier bounds are exclusive
riskLevelOf_exclusive(harmIndex) ==
    IF ~Leq(Int2(LowMax), harmIndex) THEN "Low"
    ELSE IF ~Leq(Int2(MediumMax), harmIndex) THEN "Medium"
    ELSE "High"

riskLevelOf(harmIndex) ==
    IF Leq(harmIndex, Int2(LowMax)) THEN "Low"
    ELSE IF Leq(harmIndex, Int2(MediumMax)) THEN "Medium"
    ELSE "High"

\* mutant: the fallback entry is pushed whether or not a rule fired
generateHistoricalOutcomes_keepFallback(harmIndex, intentType, emotions) ==
    (IF Gt(emotions.fear, R(6, 10))
     THEN <<[outcome |-> "Panic behavior or anxiety",
             probability |-> IF Gt(harmIndex, Int2(PanicHighAbove)) THEN "High" ELSE "Medium"]>>
     ELSE <<>>)
    \o (IF Gt(emotions.anger, R(6, 10))
        THEN <<[outcome |-> "Social unrest or confrontational behavior",
                probability |-> IF Gt(harmIndex, Int2(UnrestHighAbove)) THEN "High" ELSE "Medium"]>>
        ELSE <<>>)
    \o (IF intentType = "Alarmist" \/ intentType = "Inciting"
        THEN <<[outcome |-> "Rapid misinformation spread", probability |-> "High"]>>
        ELSE <<>>)
    \o (IF intentType = "Action-oriented"
        THEN <<[outcome |-> "Inappropriate action without verification", probability |-> "Medium"]>>
        ELSE <<>>)
    \o <<[outcome |-> "Limited behavioral impact", probability |-> "Low"]>>

\* mutant: the unrest entry uses the panic entry's threshold on the score
generateHistoricalOutcomes_oneThreshold(harmIndex, intentType, emotions) ==
    LET outcomes ==
            (IF Gt(emotions.fear, R(6, 10))
             THEN <<[outcome |-> "Panic behavior or anxiety",
                     probability |-> IF Gt(harmIndex, Int2(PanicHighAbove)) THEN "High" ELSE "Medium"]>>
             ELSE <<>>)
            \o (IF Gt(emotions.anger, R(6, 10))
                THEN <<[outcome |-> "Social unrest or confrontational behavior",
                        probability |-> IF Gt(harmIndex, Int2(PanicHighAbove)) THEN "High" ELSE "Medium"]>>
                ELSE <<>>)
            \o (IF intentType = "Alarmist" \/ intentType = "Inciting"
                THEN <<[outcome |-> "Rapid misinformation spread", probability |-> "High"]>>
                ELSE <<>>)
            \o (IF intentType = "Action-oriented"
                THEN <<[outcome |-> "Inappropriate action without verification", probability |-> "Medium"]>>
                ELSE <<>>)
    IN  IF Len(outcomes) = 0
        THEN <<[outcome |-> "Limited behavioral impact", probability |-> "Low"]>>
        ELSE outcomes

generateHistoricalOutcomes(harmIndex, intentType, emotions) ==
    LET o1 == IF Gt(emotions.fear, R(6, 10))
              THEN <<[outcome |-> "Panic behavior or anxiety",
                      probability |-> IF Gt(harmIndex, Int2(PanicHighAbove)) THEN "High" ELSE "Medium"]>>
              ELSE <<>>
        o2 == IF Gt(emotions.anger, R(6, 10))
              THEN <<[outcome |-> "Social unrest or confrontational behavior",
                      probability |-> IF Gt(harmIndex, Int2(UnrestHighAbove)) THEN "High" ELSE "Medium"]>>
              ELSE <<>>
        o3 == IF intentType = "Alarmist" \/ intentType = "Inciting"
              THEN <<[outcome |-> "Rapid misinformation spread", probability |-> "High"]>>
              ELSE <<>>
        o4 == IF intentType = "Action-oriented"
              THEN <<[outcome |-> "Inappropriate action without verification", probability |-> "Medium"]>>
              ELSE <<>>
        outcomes == o1 \o o2 \o o3 \o o4
    IN  IF Len(outcomes) = 0
        THEN <<[outcome |-> "Limited behavioral impact", probability |-> "Low"]>>
        ELSE outcomes

\* mutant: the two CTA clauses are pushed independently
generateExplanation_bothCta(harmIndex, emotions, intent, truth) ==
    (IF Gt(emotions.anger, R(6, 10)) \/ Gt(emotions.fear, R(6, 10))
     THEN <<"high emotional intensity">>
     ELSE IF Gt(emotions.anger, R(3, 10)) \/ Gt(emotions.fear, R(3, 10))
     THEN <<"moderate emotional intensity">>
     ELSE <<"low emotional intensity">>)
    \o (IF Truthy(intent.hasExplicitCTA) THEN <<"explicit calls to action">> ELSE <<>>)
    \o (IF Truthy(intent.hasImplicitCTA) THEN <<"implicit calls to action">> ELSE <<>>)
    \o (IF Gt(intent.dogWhistleProbability, R(6, 10))
        THEN <<"coded language or dog-whistles">> ELSE <<>>)
    \o (IF Gt(truth.similarityToFalseNarratives, R(7, 10))
        THEN <<"high similarity to known false narratives">>
        ELSE IF Gt(truth.similarityToFalseNarratives, R(4, 10))
        THEN <<"moderate similarity to debunked claims">>
        ELSE <<>>)
    \o (IF Truthy(truth.contradictorySources)
        THEN <<"contradict or do not support">> ELSE <<>>)

\* the parts that generateExplanation joins with the bullet separator
generateExplanation(harmIndex, emotions, intent, truth) ==
    LET p1 == IF Gt(emotions.anger, R(6, 10)) \/ Gt(emotions.fear, R(6, 10))
              THEN <<"high emotional intensity">>
              ELSE IF Gt(emotions.anger, R(3, 10)) \/ Gt(emotions.fear, R(3, 10))
              THEN <<"moderate emotional intensity">>
              ELSE <<"low emotional intensity">>
        p2 == IF Truthy(intent.hasExplicitCTA) THEN <<"explicit calls to action">>
              ELSE IF Truthy(intent.hasImplicitCTA) THEN <<"implicit calls to action">>
              ELSE <<>>
        p3 == IF Gt(intent.dogWhistleProbability, R(6, 10))
              THEN <<"coded language or dog-whistles">> ELSE <<>>
        p4 == IF Gt(truth.similarityToFalseNarratives, R(7, 10))
              THEN <<"high similarity to known false narratives">>
              ELSE IF Gt(truth.similarityToFalseNarratives, R(4, 10))
              THEN <<"moderate similarity to debunked claims">>
              ELSE <<>>
        p5 == IF Truthy(truth.contradictorySources)
              THEN <<"contradict or do not support">> ELSE <<>>
    IN  p1 \o p2 \o p3 \o p4 \o p5

\* the weighted sum of computeHarmIndex, rounded
harmIndexOf(emotionVolatility, intentRisk, historicalHarm, finalTruthUncertainty, cnnScore) ==
    MathRound(Add(Add(Add(Add(Mul(emotionVolatility, Int2(EmotionWeight)),
                              Mul(intentRisk, Int2(IntentWeight))),
                          Mul(historicalHarm, Int2(HistoryWeight))),
                      Mul(finalTruthUncertainty, Int2(TruthWeight))),
                  Mul(cnnScore, Int2(PatternWeight))))

\* the harmIndex that computeHarmIndex gives an input
harmIndexFor(input) ==
    harmIndexOf(emotionVolatilityOf(input.emotionScores), intentRiskOf(input.intentAnalysis),
                input.truthVerification.similarityToFalseNarratives,
                finalTruthUncertaintyOf(input.truthVerification),
                OrElse(input.cnnHarmScore, Zero))

computeHarmIndex(input) ==
    LET emotionScores     == input.emotionScores
        intentAnalysis    == input.intentAnalysis
        truthVerification == input.truthVerification
        emotionVolatility == emotionVolatilityOf(emotionScores)
        intentRisk        == intentRiskOf(intentAnalysis)
        historicalHarm    == truthVerification.similarityToFalseNarratives
        finalTruthUncertainty == finalTruthUncertaintyOf(truthVerification)
        cnnScore          == OrElse(input.cnnHarmScore, Zero)
        harmIndex ==
            harmIndexOf(emotionVolatility, intentRisk, historicalHarm, finalTruthUncertainty,
                        cnnScore)
        uncertainty ==
            Add(Int2(UncertaintyBase),
                MathRound(Add(Mul(emotionVolatility, Int2(UncertaintyWeight)),
                              Mul(finalTruthUncertainty, Int2(UncertaintyWeight)))))
    IN  [emotionScores     |-> emotionScores,
         intentAnalysis    |-> intentAnalysis,
         truthVerification |-> truthVerification,
         harmIndex         |-> harmIndex,
         cnnHarmScore      |-> input.cnnHarmScore,
         uncertainty       |-> uncertainty,
         riskLevel         |-> riskLevelOf(harmIndex),
         pastOutcomes      |-> generateHistoricalOutcomes(harmIndex, intentAnalysis.type, emotionScores),
         explanation       |-> generateExplanation(harmIndex, emotionScores, intentAnalysis,
                                                   truthVerification)]

----------------------------------------------------------------------------
(* Producers and their response bodies *)

Kinds == {"emotion", "intent", "rag", "cnnBert", "timeseries"}

NumBodies == 2      \* well-formed bodies each producer may answer with
NumLevels == 3      \* values each numeric signal takes in the fusion grid

\* signal values, in hundredths
AngerLevels   == <<10, 75, 40, 5, 100, 0>>
FearLevels    == <<10, 70, 50, 5, 100, 0>>
DogLevels     == <<10, 70, 100, 0, 50, 60>>
SimLevels     == <<20, 85, 30, 10, 50, 100>>
PatternLevels == <<30, 60, 0, 100, 50, 10>>
TypeSeq       == <<"Inciting", "Action-oriented", "Alarmist", "Persuasive", "Informational">>
ConfSeq       == <<"Low", "Medium", "High", "Low", "Medium">>

Pct(n) == R(n, 100)

\* A body is modelled by its shape and by what reading each property gives:
\*   "object"  a JSON object; a property it lacks reads undefined
\*   "string"  a non-empty string (a body that did not decode); every property reads undefined
\*   "empty"   the empty string, which is falsy
\*   "null"    there is no response (the promise was caught to null): ?.data is undefined
Shapes == {"object", "string", "empty", "null"}

EmotionOf(shape, anger, fear, joy, sadness, neutral) ==
    [anger |-> anger, fear |-> fear, sadness |-> sadness, shape |-> shape,
     joy |-> joy, neutral |-> neutral]
IntentOf(shape, type, explicit, implicit, dog) ==
    [type |-> type, hasExplicitCTA |-> explicit, hasImplicitCTA |-> implicit,
     dogWhistleProbability |-> dog, shape |-> shape]
TruthOf(shape, sim, conf, contra, claims) ==
    [evidenceConfidence |-> conf, contradictorySources |-> contra, similarityToFalseNarratives |-> sim,
     shape |-> shape, similarClaims |-> claims]
CnnOf(shape, score, confidence, patterns) ==
    [shape |-> shape, confidence |-> confidence, harm_score |-> score,
     cnn_patterns |-> patterns]
SeriesOf(shape, categories, context, forecast) ==
    [shape |-> shape, detected_categories |-> categories,
     historical_context |-> context, risk_forecast |-> forecast]
LlmOf(shape, explanation, insights) ==
    [explanation |-> explanation, shape |-> shape, insights |-> insights]

\* a body of the given shape none of whose properties can be read
Blank(kind, shape) ==
    CASE kind = "emotion"    -> EmotionOf(shape, Undefined, Undefined, Undefined, Undefined, Undefined)
      [] kind = "intent"     -> IntentOf(shape, "undefined", Undefined, Undefined, Undefined)
      [] kind = "rag"        -> TruthOf(shape, Undefined, "undefined", Undefined, <<>>)
      [] kind = "cnnBert"    -> CnnOf(shape, Undefined, Undefined, <<>>)
      [] kind = "timeseries" -> SeriesOf(shape, <<>>, "undefined", "undefined")
      [] kind = "llm"        -> LlmOf(shape, "undefined", <<>>)

\* the i-th well-formed body of a producer
WellFormed(kind, i) ==
    CASE kind = "emotion" ->
            EmotionOf("object", Pct(AngerLevels[i + 1]), Pct(FearLevels[i + 1]),
                      Pct(5), Pct(5), Pct(5))
      [] kind = "intent" ->
            IntentOf("object", TypeSeq[i], Bool(i % 2 = 1), Bool(i % 2 = 0), Pct(DogLevels[i + 1]))
      [] kind = "rag" ->
            TruthOf("object", Pct(SimLevels[i + 1]), ConfSeq[i], Bool(i % 2 = 0), <<"claim">>)
      [] kind = "cnnBert" ->
            CnnOf("object", Pct(PatternLevels[i + 1]), Pct(80), <<"urgency">>)
      [] kind = "timeseries" ->
            SeriesOf("object", <<"health">>, "context", IF i % 2 = 1 THEN "rising" ELSE "stable")
      [] kind = "llm" ->
            LlmOf("object", "narrative", <<"insight">>)

\* a 2xx body of the wrong shape: an object that lacks a required property,
\* or a string that is no JSON
Malformed(kind) ==
    CASE kind = "emotion"    -> Blank("emotion", "string")
      [] kind = "intent"     -> IntentOf("object", "undefined", Bool(TRUE), Bool(FALSE), Pct(50))
      [] kind = "rag"        -> TruthOf("object", Pct(50), "undefined", Bool(FALSE), <<>>)
      [] kind = "cnnBert"    -> CnnOf("object", Undefined, Pct(80), <<"urgency">>)
      [] kind = "timeseries" -> Blank("timeseries", "string")
      [] kind = "llm"        -> Blank("llm", "string")

Bodies(kind) ==
    {WellFormed(kind, i) : i \in 1..NumBodies} \cup {Malformed(kind), Blank(kind, "empty")}

IsWellFormed(kind, body) == \E i \in 1..NumBodies : body = WellFormed(kind, i)

\* the static defaults of analyze.ts
DefaultEmotion == EmotionOf("object", Pct(10), Pct(10), Pct(20), Pct(10), Pct(50))
\* mutant: the intent default is an alarming one
DefaultIntent_alarmist == IntentOf("object", "Alarmist", Bool(FALSE), Bool(FALSE), Pct(10))

DefaultIntent  == IntentOf("object", "Informational", Bool(FALSE), Bool(FALSE), Pct(10))
DefaultTruth   == TruthOf("object", Pct(20), "Medium", Bool(FALSE), <<>>)
DefaultCnn     == CnnOf("object", Pct(30), Pct(50), <<>>)
DefaultSeries  == SeriesOf("object", <<>>, "No historical data available", "Unable to forecast")

DefaultOf(kind) ==
    CASE kind = "emotion"    -> DefaultEmotion
      [] kind = "intent"     -> DefaultIntent
      [] kind = "rag"        -> DefaultTruth
      [] kind = "cnnBert"    -> DefaultCnn
      [] kind = "timeseries" -> DefaultSeries

----------------------------------------------------------------------------
(* Promises *)

NoCall(kind)        == [st |-> "none", data |-> Blank(kind, "null")]
Pending(kind)       == [st |-> "pending", data |-> Blank(kind, "null")]
Rejected(kind)      == [st |-> "rejected", data |-> Blank(kind, "null")]
Fulfilled(body)     == [st |-> "fulfilled", data |-> body]

\* what an axios call can settle to: a rejection (network error, non-2xx
\* status), or a 2xx response with some body
Outcomes(kind) == {Rejected(kind)} \cup {Fulfilled(b) : b \in Bodies(kind)}

\* mutant: the call is not guarded by a catch
CatchNull_unguarded(kind, p) == p

\* p.catch(() => null): a rejection becomes a promise fulfilled with null
CatchNull(kind, p) == IF p.st = "rejected" THEN Fulfilled(Blank(kind, "null")) ELSE p

\* mutant: the body is used whether or not there is one
DataOr_noFallback(body, fallback) == body

\* response?.data || fallback
DataOr(body, fallback) == IF body.shape \in {"object", "string"} THEN body ELSE fallback

----------------------------------------------------------------------------
(* POST /analyze *)

\* req.body.text: t is what typeof gives, s the value written as text
TextOf(t, s) == [t |-> t, s |-> s]
NoText == TextOf("undefined", "")

ValidTexts   == {TextOf("string", "They are planning something tonight."), TextOf("string", " ")}
InvalidTexts == {NoText, TextOf("string", ""), TextOf("number", "42"), TextOf("number", "0"),
                 TextOf("object", "{}"), TextOf("object", "null"), TextOf("boolean", "true")}
TextValues   == ValidTexts \cup InvalidTexts

\* !text
TextFalsy(text) ==
    \/ text.t = "undefined"
    \/ text.t = "string" /\ text.s = ""
    \/ text.t = "number" /\ text.s = "0"
    \/ text.t = "object" /\ text.s = "null"
    \/ text.t = "boolean" /\ text.s = "false"

\* mutant: the typeof test is left out
Rejects_falsyOnly(text) == TextFalsy(text)

\* !text || typeof text !== 'string'
Rejects(text) == TextFalsy(text) \/ text.t # "string"

NoInput ==
    [emotionScores |-> Blank("emotion", "null"), intentAnalysis |-> Blank("intent", "null"),
     truthVerification |-> Blank("rag", "null"), cnnHarmScore |-> Undefined,
     text |-> NoText]

NoAssessment ==
    [emotionScores |-> Blank("emotion", "null"), intentAnalysis |-> Blank("intent", "null"), truthVerification |-> Blank("rag", "null"),
     harmIndex |-> Undefined, cnnHarmScore |-> Undefined,
     uncertainty |-> Undefined, riskLevel |-> "undefined",
     pastOutcomes |-> <<>>, explanation |-> <<>>]

NoLlmReq == [emotionScores |-> Blank("emotion", "null"), intentAnalysis |-> Blank("intent", "null"), truthVerification |-> Blank("rag", "null"),
             harmIndex |-> Undefined,
             riskLevel |-> "undefined",
             text |-> NoText]

NoData == [cnnBertResult |-> Blank("cnnBert", "null"), timeseriesData |-> Blank("timeseries", "null"),
           assessment |-> NoAssessment,
           llmExplanation |-> Blank("llm", "null")]

NoResponse == [data |-> NoData, status |-> 0, success |-> FALSE, error |-> ""]

BadRequest == [data |-> NoData, status |-> 400,
               success |-> FALSE, error |-> "Text is required and must be a string"]

InternalError == [data |-> NoData, status |-> 500,
                  success |-> FALSE, error |-> "Internal server error during analysis"]

\* res.json without res.status answers 200
Success(data) == [data |-> data, status |-> 200, success |-> TRUE, error |-> ""]

\* a handler invocation that has not started
PeerIdle ==
    [pc |-> "idle", req |-> [text |-> NoText], calls |-> [k \in Kinds |-> NoCall(k)],
     harmAssessment |-> NoAssessment, cnnBertResult |-> Blank("cnnBert", "null"),
     timeseriesData |-> Blank("timeseries", "null"), llm |-> NoCall("llm"),
     response |-> NoResponse]

\* useState(null)
NoValue(blank) == [some |-> FALSE, v |-> blank]
Some(value)    == [some |-> TRUE, v |-> value]

\* the component as mounted: useState('') / false / null / null; inFlight and
\* sent count the analyzeText calls pending and made, last is the last event
UiMounted ==
    [assessment |-> NoValue(NoData), error |-> NoValue(""), inputText |-> "",
     loading |-> FALSE, inFlight |-> 0, sent |-> 0, last |-> "mount"]

Init ==
    /\ pc = "idle"
    /\ req = [text |-> NoText]
    /\ calls = [k \in Kinds |-> NoCall(k)]
    /\ issued = [k \in Kinds |-> 0]
    /\ fuseInput = NoInput
    /\ fuseCount = 0
    /\ harmAssessment = NoAssessment
    /\ cnnBertResult = Blank("cnnBert", "null")
    /\ timeseriesData = Blank("timeseries", "null")
    /\ llm = NoCall("llm")
    /\ llmReq = NoLlmReq
    /\ llmIssued = 0
    /\ response = NoResponse
    /\ peer = PeerIdle
    /\ ui = UiMounted

\* the five promises cs of an invocation as its Promise.all sees them
GuardedIn(cs, k) == CatchNull(k, cs[k])
Guarded(k) == GuardedIn(calls, k)

\* mutant: the handler resumes as soon as one member is fulfilled
AllFulfilledIn_any(cs) == \E k \in Kinds : GuardedIn(cs, k).st = "fulfilled"

\* Promise.all settles: fulfilled once every member is, rejected as soon as one is
AllFulfilledIn(cs) == \A k \in Kinds : GuardedIn(cs, k).st = "fulfilled"
SomeRejectedIn(cs) == \E k \in Kinds : GuardedIn(cs, k).st = "rejected"
AllFulfilled == AllFulfilledIn(calls)
SomeRejected == SomeRejectedIn(calls)

\* the argument of computeHarmIndex, from the settled fan-out cs
InputFrom(cs, text) ==
    [emotionScores     |-> DataOr(GuardedIn(cs, "emotion").data, DefaultEmotion),
     intentAnalysis    |-> DataOr(GuardedIn(cs, "intent").data, DefaultIntent),
     truthVerification |-> DataOr(GuardedIn(cs, "rag").data, DefaultTruth),
     cnnHarmScore      |-> Coalesce(DataOr(GuardedIn(cs, "cnnBert").data, DefaultCnn).harm_score, Zero),
     text              |-> text]
InputOf(text) == InputFrom(calls, text)

\* mutant: the payload is built before the score exists
LlmPayload_unfused(text, assessment) ==
    [emotionScores |-> assessment.emotionScores, intentAnalysis |-> assessment.intentAnalysis, truthVerification |-> assessment.truthVerification,
     harmIndex |-> Undefined, riskLevel |-> "undefined",
     text |-> text]

\* the payload of the /explain call
LlmPayload(text, assessment) ==
    [emotionScores |-> assessment.emotionScores, intentAnalysis |-> assessment.intentAnalysis, truthVerification |-> assessment.truthVerification,
     harmIndex |-> assessment.harmIndex, riskLevel |-> assessment.riskLevel,
     text |-> text]

\* llmExplanation: llmResponse?.data || null, and null when the call threw
LlmExplanationOf(p) ==
    IF p.st = "fulfilled" THEN DataOr(p.data, Blank("llm", "null")) ELSE Blank("llm", "null")

\* mutant: a failed enrichment call drops the optional signals too
ResponseData_dropOptional(assessment, cnn, series, p) ==
    IF p.st = "rejected"
    THEN [cnnBertResult |-> Blank("cnnBert", "null"), timeseriesData |-> Blank("timeseries", "null"),
          assessment |-> assessment,
          llmExplanation |-> Blank("llm", "null")]
    ELSE [cnnBertResult |-> cnn, timeseriesData |-> series, assessment |-> assessment,
          llmExplanation |-> LlmExplanationOf(p)]

\* mutant: the enrichment body is spread over the assessment, so that its
\* explanation property replaces the narrative
ResponseData_spreadLlm(assessment, cnn, series, p) ==
    [cnnBertResult |-> cnn, timeseriesData |-> series,
     assessment |-> IF p.st = "fulfilled" /\ p.data.shape = "object"
                    THEN [assessment EXCEPT !.explanation = <<p.data.explanation>>]
                    ELSE assessment,
     llmExplanation |-> LlmExplanationOf(p)]

\* the body of the success response
ResponseData(assessment, cnn, series, p) ==
    [cnnBertResult |-> cnn, timeseriesData |-> series, assessment |-> assessment,
     llmExplanation |-> LlmExplanationOf(p)]

\* The handler runs up to its first await: it validates the text, answers 400,
\* or sends the five producer requests.
Analyze(body) ==
    /\ pc = "idle"
    /\ req' = body
    /\ IF Rejects(body.text)
       THEN /\ response' = BadRequest
            /\ pc' = "done"
            /\ UNCHANGED <<calls, issued>>
       ELSE /\ calls' = [k \in Kinds |-> Pending(k)]
            /\ issued' = [k \in Kinds |-> issued[k] + 1]
            /\ pc' = "awaitAll"
            /\ UNCHANGED response
    /\ UNCHANGED <<fuseInput, fuseCount, harmAssessment, cnnBertResult, timeseriesData,
                   llm, llmReq, llmIssued, peer, ui>>

\* mutant: a failed call is sent again
Settle_retry(k, outcome) ==
    /\ calls[k].st = "pending"
    /\ IF outcome.st = "rejected"
       THEN calls' = calls /\ issued' = [issued EXCEPT ![k] = issued[k] + 1]
       ELSE calls' = [calls EXCEPT ![k] = outcome] /\ UNCHANGED issued
    /\ UNCHANGED <<pc, req, fuseInput, fuseCount, harmAssessment, cnnBertResult,
                   timeseriesData, llm, llmReq, llmIssued, response, peer, ui>>

\* A producer answers, or its call fails.
Settle(k, outcome) ==
    /\ calls[k].st = "pending"
    /\ calls' = [calls EXCEPT ![k] = outcome]
    /\ UNCHANGED <<pc, req, issued, fuseInput, fuseCount, harmAssessment, cnnBertResult,
                   timeseriesData, llm, llmReq, llmIssued, response, peer, ui>>

\* The handler resumes after Promise.all: it extracts the signals, calls
\* computeHarmIndex and sends the /explain request; a rejection of
\* Promise.all lands in the catch block.
Fuse ==
    /\ pc = "awaitAll"
    /\ AllFulfilled \/ SomeRejected
    /\ IF SomeRejected
       THEN /\ response' = InternalError
            /\ pc' = "done"
            /\ UNCHANGED <<fuseInput, fuseCount, harmAssessment, cnnBertResult,
                           timeseriesData, llm, llmReq, llmIssued>>
       ELSE /\ fuseInput' = InputOf(req.text)
            /\ fuseCount' = fuseCount + 1
            /\ harmAssessment' = computeHarmIndex(fuseInput')
            /\ cnnBertResult' = DataOr(Guarded("cnnBert").data, DefaultCnn)
            /\ timeseriesData' = DataOr(Guarded("timeseries").data, DefaultSeries)
            /\ llm' = Pending("llm")
            /\ llmReq' = LlmPayload(req.text, harmAssessment')
            /\ llmIssued' = llmIssued + 1
            /\ pc' = "awaitLlm"
            /\ UNCHANGED response
    /\ UNCHANGED <<req, calls, issued, peer, ui>>

\* The enrichment producer answers, or its call fails.
LlmSettle(outcome) ==
    /\ llm.st = "pending"
    /\ llm' = outcome
    /\ UNCHANGED <<pc, req, calls, issued, fuseInput, fuseCount, harmAssessment,
                   cnnBertResult, timeseriesData, llmReq, llmIssued, response, peer, ui>>

\* The handler resumes after the /explain call and answers.
Respond ==
    /\ pc = "awaitLlm"
    /\ llm.st \in {"fulfilled", "rejected"}
    /\ response' = Success(ResponseData(harmAssessment, cnnBertResult, timeseriesData, llm))
    /\ pc' = "done"
    /\ UNCHANGED <<req, calls, issued, fuseInput, fuseCount, harmAssessment, cnnBertResult,
                   timeseriesData, llm, llmReq, llmIssued, peer, ui>>

Next ==
    \/ \E text \in TextValues : Analyze([text |-> text])
    \/ \E k \in Kinds : \E outcome \in Outcomes(k) : Settle(k, outcome)
    \/ Fuse
    \/ \E outcome \in Outcomes("llm") : LlmSettle(outcome)
    \/ Respond

Spec == Init /\ [][Next]_vars

\* The event loop runs a continuation that is ready; nothing makes a producer answer.
LiveSpec == Spec /\ WF_vars(Fuse) /\ WF_vars(Respond)
             /\ WF_vars(\E text \in TextValues : Analyze([text |-> text]))

----------------------------------------------------------------------------
(* Two invocations of the handler in progress at once *)

\* the locals of the first invocation
own == <<pc, req, calls, issued, fuseInput, fuseCount, harmAssessment,
         cnnBertResult, timeseriesData, llm, llmReq, llmIssued, response>>

\* mutant: the fan-out results are kept in a variable of the module, which
\* the other invocation has overwritten
PeerResults_shared == IF AllFulfilledIn(calls) THEN calls ELSE peer.calls

\* const [...] = await Promise.all(...) of the second invocation
PeerResults == peer.calls

PeerAnalyze(body) ==
    /\ peer.pc = "idle"
    /\ peer' = IF Rejects(body.text)
               THEN [peer EXCEPT !.req = body, !.response = BadRequest, !.pc = "done"]
               ELSE [peer EXCEPT !.req = body, !.calls = [k \in Kinds |-> Pending(k)],
                                 !.pc = "awaitAll"]
    /\ UNCHANGED <<own, ui>>

PeerSettle(k, outcome) ==
    /\ peer.calls[k].st = "pending"
    /\ peer' = [peer EXCEPT !.calls[k] = outcome]
    /\ UNCHANGED <<own, ui>>

PeerFuse ==
    /\ peer.pc = "awaitAll"
    /\ AllFulfilledIn(peer.calls) \/ SomeRejectedIn(peer.calls)
    /\ peer' = IF SomeRejectedIn(peer.calls)
               THEN [peer EXCEPT !.response = InternalError, !.pc = "done"]
               ELSE [peer EXCEPT
                       !.harmAssessment = computeHarmIndex(InputFrom(PeerResults, peer.req.text)),
                       !.cnnBertResult = DataOr(GuardedIn(PeerResults, "cnnBert").data, DefaultCnn),
                       !.timeseriesData = DataOr(GuardedIn(PeerResults, "timeseries").data, DefaultSeries),
                       !.llm = Pending("llm"),
                       !.pc = "awaitLlm"]
    /\ UNCHANGED <<own, ui>>

PeerLlmSettle(outcome) ==
    /\ peer.llm.st = "pending"
    /\ peer' = [peer EXCEPT !.llm = outcome]
    /\ UNCHANGED <<own, ui>>

PeerRespond ==
    /\ peer.pc = "awaitLlm"
    /\ peer.llm.st \in {"fulfilled", "rejected"}
    /\ peer' = [peer EXCEPT
                  !.response = Success(ResponseData(peer.harmAssessment, peer.cnnBertResult,
                                                    peer.timeseriesData, peer.llm)),
                  !.pc = "done"]
    /\ UNCHANGED <<own, ui>>

\* the text both callers submit, and what a producer answers, in the
\* two-invocation runs
PairTexts == {TextOf("string", "They are planning something tonight.")}
PairOutcomes(kind) == {Rejected(kind), Fulfilled(WellFormed(kind, 1))}

PairNext ==
    \/ \E text \in PairTexts : Analyze([text |-> text])
    \/ \E k \in Kinds : \E outcome \in PairOutcomes(k) : Settle(k, outcome)
    \/ Fuse
    \/ \E outcome \in PairOutcomes("llm") : LlmSettle(outcome)
    \/ Respond
    \/ \E text \in PairTexts : PeerAnalyze([text |-> text])
    \/ \E k \in Kinds : \E outcome \in PairOutcomes(k) : PeerSettle(k, outcome)
    \/ PeerFuse
    \/ \E outcome \in PairOutcomes("llm") : PeerLlmSettle(outcome)
    \/ PeerRespond

PairSpec == Init /\ [][PairNext]_vars

----------------------------------------------------------------------------
(* The ChatInterface component *)

MaxRequests == 3    \* analyzeText calls in one run of the component

\* what the user may have typed, and String.prototype.trim on it
UiTexts == {"", " ", "a", " b "}
Trim(s) == CASE s = " " -> "" [] s = " b " -> "b" [] OTHER -> s

\* what analyzeText resolves to: the 2xx body, or its own failure object
\* when api.post threw
ApiResponse(shape, success, data, error) ==
    [shape |-> shape, data |-> data, success |-> success, error |-> error]

ApiFailure ==
    ApiResponse("object", FALSE, NoValue(NoData), Some("Failed to analyze text. Please try again."))

DefaultInput ==
    [emotionScores |-> DefaultEmotion, intentAnalysis |-> DefaultIntent,
     truthVerification |-> DefaultTruth, cnnHarmScore |-> DefaultCnn.harm_score,
     text |-> TextOf("string", "a")]

\* success bodies of POST /analyze, with and without the enrichment result
ApiBodies ==
    {ResponseData(computeHarmIndex(DefaultInput), DefaultCnn, DefaultSeries, p) :
        p \in {Rejected("llm"), Fulfilled(WellFormed("llm", 1))}}

ApiResponses ==
    {ApiResponse("object", TRUE, Some(d), NoValue("")) : d \in ApiBodies}
    \cup {ApiFailure,
          ApiResponse("object", TRUE, NoValue(NoData), NoValue("")),
          ApiResponse("object", FALSE, NoValue(NoData), Some("Internal server error during analysis")),
          ApiResponse("object", FALSE, NoValue(NoData), NoValue("")),
          ApiResponse("empty", FALSE, NoValue(NoData), NoValue("")),
          ApiResponse("null", FALSE, NoValue(NoData), NoValue(""))}

\* mutant: the previous assessment is left in place while the next one loads
SubmitStart_keepAssessment(u) ==
    IF Trim(u.inputText) = ""
    THEN u
    ELSE [u EXCEPT !.loading = TRUE, !.error = NoValue(""),
                   !.inFlight = @ + 1, !.sent = @ + 1]

\* handleSubmit up to its await
SubmitStart(u) ==
    IF Trim(u.inputText) = ""
    THEN u
    ELSE [u EXCEPT !.loading = TRUE, !.error = NoValue(""), !.assessment = NoValue(NoData),
                   !.inFlight = @ + 1, !.sent = @ + 1]

\* handleSubmit after its await: try, catch (reading a property of null
\* throws) and finally
SubmitSettle(u, r) ==
    LET after ==
          IF r.shape = "null"
          THEN [u EXCEPT !.error = Some("An unexpected error occurred")]
          ELSE IF r.shape = "object" /\ r.success /\ r.data.some
          THEN [u EXCEPT !.assessment = Some(r.data.v)]
          ELSE [u EXCEPT !.error = Some(IF r.shape = "object" /\ r.error.some /\ r.error.v # ""
                                        THEN r.error.v ELSE "Failed to analyze text")]
    IN  [after EXCEPT !.loading = FALSE, !.inFlight = @ - 1]

handleClear(u) ==
    [u EXCEPT !.inputText = "", !.assessment = NoValue(NoData), !.error = NoValue("")]

\* onChange of the textarea, which is disabled while loading
UiType(s) ==
    /\ ~ui.loading
    /\ ui' = [ui EXCEPT !.inputText = s, !.last = "type"]
    /\ UNCHANGED <<own, peer>>

\* the form is submitted; its submit button is disabled while loading
UiSubmit ==
    /\ ~ui.loading
    /\ ui.sent < MaxRequests
    /\ ui' = [SubmitStart(ui) EXCEPT !.last = "submit"]
    /\ UNCHANGED <<own, peer>>

\* analyzeText resolves
UiArrive(r) ==
    /\ ui.inFlight > 0
    /\ ui' = [SubmitSettle(ui, r) EXCEPT !.last = "arrive"]
    /\ UNCHANGED <<own, peer>>

\* the Clear button, rendered when (inputText || assessment) && !loading
UiClear ==
    /\ ui.inputText # "" \/ ui.assessment.some
    /\ ~ui.loading
    /\ ui' = [handleClear(ui) EXCEPT !.last = "clear"]
    /\ UNCHANGED <<own, peer>>

UiNext ==
    \/ \E s \in UiTexts : UiType(s)
    \/ UiSubmit
    \/ \E r \in ApiResponses : UiArrive(r)
    \/ UiClear

UiSpec == Init /\ [][UiNext]_vars

\* The sections ChatbotPanel renders from its props, by their labels: nothing
\* without llmExplanation; rendering throws when its explanation cannot be
\* split.
ChatbotPanel(llmExplanation, series, cnn) ==
    IF llmExplanation.shape \in {"null", "empty"}
    THEN {}
    ELSE IF llmExplanation.explanation = "undefined"
    THEN {"TypeError"}
    ELSE {"Analysis Summary"}
         \cup (IF Len(llmExplanation.insights) > 0 THEN {"Key Insights"} ELSE {})
         \cup (IF cnn.shape # "null" /\ Len(cnn.cnn_patterns) > 0
               THEN {"Detected Patterns"} ELSE {})
         \cup (IF series.shape # "null"
                  /\ series.historical_context \notin {"undefined", ""}
               THEN {"Historical Context"} ELSE {})
         \cup (IF series.shape # "null"
                  /\ series.risk_forecast \notin {"undefined", ""}
               THEN {"Risk Forecast"} ELSE {})

\* the panel as ChatInterface renders it for an assessment held in its state
PanelOf(data) ==
    ChatbotPanel(data.llmExplanation, data.timeseriesData, data.cnnBertResult)

----------------------------------------------------------------------------
(* computeHarmIndex on its own, over a grid of valid signals *)

Levels(seq) == {Pct(seq[i]) : i \in 1..NumLevels}

\* a HarmIndexInput of valid signals; cnnHarmScore is optional
InputWith(a, f, ty, ex, im, dw, s, cf, cs, c) ==
    [emotionScores |-> EmotionOf("object", a, f, Pct(5), Pct(5), Pct(5)),
     intentAnalysis |-> IntentOf("object", ty, Bool(ex), Bool(im), dw),
     truthVerification |-> TruthOf("object", s, cf, Bool(cs), <<>>),
     cnnHarmScore |-> c,
     text |-> TextOf("string", "t")]

GridInputs ==
    {InputWith(a, f, ty, ex, im, dw, s, cf, cs, c) :
        a \in Levels(AngerLevels), f \in Levels(FearLevels), ty \in IntentTypes,
        ex \in BOOLEAN, im \in BOOLEAN, dw \in Levels(DogLevels),
        s \in Levels(SimLevels), cf \in Confidences, cs \in BOOLEAN,
        c \in Levels(PatternLevels) \cup {Undefined}}

\* the values at the thresholds of the outcome and narrative rules, and the
\* top of each range
EdgeInputs ==
    {InputWith(a, f, ty, ex, im, dw, s, cf, cs, Pct(100)) :
        a \in {Pct(30), Pct(60), Pct(100)}, f \in {Pct(30), Pct(60), Pct(100)},
        ty \in IntentTypes, ex \in BOOLEAN, im \in BOOLEAN,
        dw \in {Pct(60), Pct(100)}, s \in {Pct(40), Pct(70), Pct(100)},
        cf \in Confidences, cs \in BOOLEAN}

PureInit ==
    /\ pc = "pure"
    /\ fuseInput \in GridInputs \cup EdgeInputs
    /\ req = [text |-> fuseInput.text]
    /\ calls = [k \in Kinds |-> NoCall(k)]
    /\ issued = [k \in Kinds |-> 0]
    /\ fuseCount = 0
    /\ harmAssessment = NoAssessment
    /\ cnnBertResult = Blank("cnnBert", "null")
    /\ timeseriesData = Blank("timeseries", "null")
    /\ llm = NoCall("llm")
    /\ llmReq = NoLlmReq
    /\ llmIssued = 0
    /\ response = NoResponse
    /\ peer = PeerIdle
    /\ ui = UiMounted

Compute ==
    /\ pc = "pure"
    /\ harmAssessment' = computeHarmIndex(fuseInput)
    /\ fuseCount' = fuseCount + 1
    /\ pc' = "pureDone"
    /\ UNCHANGED <<req, calls, issued, fuseInput, cnnBertResult, timeseriesData,
                   llm, llmReq, llmIssued, response, peer, ui>>

PureNext == Compute

PureSpec == PureInit /\ [][PureNext]_vars

\* computeHarmIndex on the inputs whose numeric signals are at the bottom, the
\* middle or the top of their range
MonoValues == {Pct(0), Pct(50), Pct(100)}

MonoInputs ==
    {InputWith(a, f, ty, ex, im, dw, s, cf, cs, c) :
        a \in MonoValues, f \in MonoValues, ty \in IntentTypes,
        ex \in BOOLEAN, im \in BOOLEAN, dw \in MonoValues,
        s \in MonoValues, cf \in Confidences, cs \in BOOLEAN,
        c \in MonoValues \cup {Undefined}}

MonoInit ==
    /\ pc = "pure"
    /\ fuseInput \in MonoInputs
    /\ req = [text |-> fuseInput.text]
    /\ calls = [k \in Kinds |-> NoCall(k)]
    /\ issued = [k \in Kinds |-> 0]
    /\ fuseCount = 0
    /\ harmAssessment = NoAssessment
    /\ cnnBertResult = Blank("cnnBert", "null")
    /\ timeseriesData = Blank("timeseries", "null")
    /\ llm = NoCall("llm")
    /\ llmReq = NoLlmReq
    /\ llmIssued = 0
    /\ response = NoResponse
    /\ peer = PeerIdle
    /\ ui = UiMounted

MonoSpec == MonoInit /\ [][PureNext]_vars

\* both at once: requests to the handler, and computeHarmIndex on its own
FullInit == Init \/ PureInit
FullNext == Next \/ PureNext
FullSpec == FullInit /\ [][FullNext]_vars

----------------------------------------------------------------------------
(* Properties of the fusion calculator, checked under PureSpec *)

\* a signal value in hundredths
Hundredths(x) == (x.n * 100) \div x.d

ClaimBase(type) ==
    CASE type = "Informational"   -> 10
      [] type = "Persuasive"      -> 40
      [] type = "Action-oriented" -> 60
      [] type = "Alarmist"        -> 75
      [] type = "Inciting"        -> 90

ClaimConfidence(conf) ==
    CASE conf = "High" -> 10 [] conf = "Medium" -> 50 [] conf = "Low" -> 80

Least(a, b) == IF a <= b THEN a ELSE b

\* a hundred times the weighted sum that C1 states, as an integer:
\* emotionVolatility*20 = (12 anger + 11 fear)/100, intentRisk in 1/500ths
ClaimSum100(input) ==
    LET a   == Hundredths(input.emotionScores.anger)
        f   == Hundredths(input.emotionScores.fear)
        dw  == Hundredths(input.intentAnalysis.dogWhistleProbability)
        s   == Hundredths(input.truthVerification.similarityToFalseNarratives)
        c   == Hundredths(input.cnnHarmScore)
        cta == IF input.intentAnalysis.hasExplicitCTA = Bool(TRUE) THEN 15
               ELSE IF input.intentAnalysis.hasImplicitCTA = Bool(TRUE) THEN 10 ELSE 0
        ir500 == Least(500, 5 * (ClaimBase(input.intentAnalysis.type) + cta) + dw)
        tu100 == Least(100, ClaimConfidence(input.truthVerification.evidenceConfidence)
                            + (IF input.truthVerification.contradictorySources = Bool(TRUE)
                               THEN 15 ELSE 0))
    IN  (12 * a + 11 * f) + 5 * ir500 + 20 * s + 15 * tu100 + 20 * c

C2_RiskTiers ==
    pc = "pureDone" =>
        LET h == harmAssessment.harmIndex.n
            r == harmAssessment.riskLevel
        IN  /\ IsInteger(harmAssessment.harmIndex)
            /\ (r = "Low") <=> (h <= 30)
            /\ (r = "Medium") <=> (31 <= h /\ h <= 60)
            /\ (r = "High") <=> (h > 60)
            /\ (h = 30 => r = "Low") /\ (h = 31 => r = "Medium")
            /\ (h = 60 => r = "Medium") /\ (h = 61 => r = "High")

C2_Witness ==
    /\ pc = "pureDone"
    /\ harmAssessment.harmIndex = Int2(60)
    /\ harmAssessment.riskLevel = "Medium"

\* the other three boundary scores are computed as well
C2_Boundary30 == pc = "pureDone" /\ harmAssessment.harmIndex = Int2(30)
C2_Boundary31 == pc = "pureDone" /\ harmAssessment.harmIndex = Int2(31)
C2_Boundary61 == pc = "pureDone" /\ harmAssessment.harmIndex = Int2(61)

----------------------------------------------------------------------------
(* Properties of the orchestrator, checked under Spec *)

\* the request text is missing, empty or no string
ClaimInvalid(text) ==
    text.t = "undefined" \/ text.t # "string" \/ (text.t = "string" /\ text.s = "")

Failed(k)    == calls[k].st = "rejected"
Succeeded(k) == calls[k].st = "fulfilled" /\ IsWellFormed(k, calls[k].data)

\* the static defaults as C3 lists them
ClaimDefault(k) ==
    CASE k = "emotion"    -> [anger |-> R(1, 10), fear |-> R(1, 10), sadness |-> R(1, 10),
                              shape |-> "object", joy |-> R(2, 10), neutral |-> R(5, 10)]
      [] k = "intent"     -> [type |-> "Informational", hasExplicitCTA |-> Bool(FALSE),
                              hasImplicitCTA |-> Bool(FALSE), dogWhistleProbability |-> R(1, 10),
                              shape |-> "object"]
      [] k = "rag"        -> [evidenceConfidence |-> "Medium", contradictorySources |-> Bool(FALSE),
                              similarityToFalseNarratives |-> R(2, 10),
                              shape |-> "object", similarClaims |-> <<>>]
      [] k = "cnnBert"    -> [shape |-> "object", confidence |-> R(5, 10),
                              harm_score |-> R(3, 10), cnn_patterns |-> <<>>]
      [] k = "timeseries" -> [shape |-> "object", detected_categories |-> <<>>,
                              historical_context |-> "No historical data available",
                              risk_forecast |-> "Unable to forecast"]

\* the signal the assessment must carry for producer k
Expected(k) == IF Failed(k) THEN ClaimDefault(k) ELSE calls[k].data

\* C3: whatever subset of the five producer calls fails, the request is
\* answered with a complete assessment that carries the default of each failed
\* signal and the returned body of each other one, and whose harmIndex is
\* computeHarmIndex of that mix.
C3_DefaultsOnFailure ==
    (/\ pc = "done"
     /\ ~ClaimInvalid(req.text)
     /\ \A k \in Kinds : Failed(k) \/ Succeeded(k))
    => /\ response.status = 200 /\ response.success
       /\ response.data.assessment.emotionScores = Expected("emotion")
       /\ response.data.assessment.intentAnalysis = Expected("intent")
       /\ response.data.assessment.truthVerification = Expected("rag")
       /\ response.data.cnnBertResult = Expected("cnnBert")
       /\ response.data.timeseriesData = Expected("timeseries")
       /\ response.data.assessment.harmIndex =
            computeHarmIndex([emotionScores |-> Expected("emotion"),
                              intentAnalysis |-> Expected("intent"),
                              truthVerification |-> Expected("rag"),
                              cnnHarmScore |-> Expected("cnnBert").harm_score,
                              text |-> req.text]).harmIndex
       /\ IsInteger(response.data.assessment.harmIndex)

\* a mix: three producers failed, two answered
C3_Witness ==
    /\ pc = "done" /\ response.status = 200
    /\ Failed("emotion") /\ Failed("rag") /\ Failed("timeseries")
    /\ Succeeded("intent") /\ Succeeded("cnnBert")

\* C4 (as claimed): a malformed 2xx body of a producer is replaced by that
\* signal's default before computeHarmIndex is called.
C4_MalformedDefaulted ==
    fuseCount > 0 =>
        /\ calls["emotion"] = Fulfilled(Malformed("emotion"))
              => fuseInput.emotionScores = DefaultEmotion
        /\ calls["intent"] = Fulfilled(Malformed("intent"))
              => fuseInput.intentAnalysis = DefaultIntent
        /\ calls["rag"] = Fulfilled(Malformed("rag"))
              => fuseInput.truthVerification = DefaultTruth
        /\ calls["cnnBert"] = Fulfilled(Malformed("cnnBert"))
              => fuseInput.cnnHarmScore = DefaultCnn.harm_score

\* C5 (as claimed): a request that passed validation is eventually answered.
C5_EventuallyAnswered == (pc \in {"awaitAll", "awaitLlm"}) ~> (pc = "done")

\* C6: a request whose text is missing, empty or no string is answered 400
\* with success=false and no producer is ever called for it; a request whose
\* text is a non-empty string is never answered 400.
C6_Validation ==
    pc # "idle" =>
        IF ClaimInvalid(req.text)
        THEN /\ pc = "done"
             /\ response.status = 400 /\ ~response.success
             /\ \A k \in Kinds : issued[k] = 0 /\ calls[k].st = "none"
             /\ llmIssued = 0 /\ llm.st = "none"
        ELSE response.status # 400

C6_Witness ==
    /\ pc = "done" /\ response.status = 400
    /\ req.text.t = "number" /\ req.text.s = "42"

\* C7: once validation has passed, whatever producer calls fail, the request
\* ends with a success response carrying an assessment; the 500 response is
\* never produced by a producer failure.
C7_NoInternalError ==
    /\ response.status # 500
    /\ (/\ pc = "done"
        /\ ~ClaimInvalid(req.text)
        /\ \A k \in Kinds : Failed(k) \/ Succeeded(k)
        /\ llm.st = "rejected" \/ llm = Fulfilled(WellFormed("llm", 1)))
       => /\ response.status = 200 /\ response.success
          /\ response.data.assessment = harmAssessment
          /\ IsInteger(response.data.assessment.harmIndex)
          /\ response.data.assessment.riskLevel \in RiskLevels

\* every producer call failed, the enrichment call too
C7_Witness ==
    /\ pc = "done" /\ response.status = 200
    /\ \A k \in Kinds : Failed(k)
    /\ llm.st = "rejected"

\* C8: the /explain call is sent at most once, only when all five signal calls
\* have settled and computeHarmIndex has returned, and it carries the
\* harmIndex and riskLevel of the final response.
C8_EnrichmentAfterFusion ==
    /\ llmIssued <= 1
    /\ (llm.st # "none") <=> (llmIssued = 1)
    /\ llmIssued = 1 =>
          /\ \A k \in Kinds : calls[k].st \in {"fulfilled", "rejected"}
          /\ fuseCount = 1
          /\ llmReq.harmIndex = harmAssessment.harmIndex
          /\ llmReq.riskLevel = harmAssessment.riskLevel
          /\ llmReq.riskLevel \in RiskLevels
    /\ response.status = 200 =>
          /\ llmIssued = 1
          /\ response.data.assessment.harmIndex = llmReq.harmIndex
          /\ response.data.assessment.riskLevel = llmReq.riskLevel

C8_Witness ==
    /\ pc = "done" /\ response.status = 200
    /\ llmIssued = 1 /\ llm = Fulfilled(WellFormed("llm", 1))
    /\ llmReq.riskLevel = "High"

\* C9: when the /explain call fails or answers an empty body, the response is
\* a success whose llmExplanation is null, and every other field is what the
\* settled signals alone determine.
C9_EnrichmentAbsent ==
    (pc = "done" /\ llmIssued = 1) =>
        /\ response.status = 200 /\ response.success
        /\ (llm.st = "rejected" \/ llm.data.shape = "empty")
              => response.data.llmExplanation = Blank("llm", "null")
        /\ response.data.assessment = computeHarmIndex(InputOf(req.text))
        /\ response.data.cnnBertResult = DataOr(Guarded("cnnBert").data, DefaultCnn)
        /\ response.data.timeseriesData = DataOr(Guarded("timeseries").data, DefaultSeries)

C9_Witness ==
    /\ pc = "done" /\ response.status = 200
    /\ llm.st = "rejected"
    /\ response.data.llmExplanation.shape = "null"
    /\ Succeeded("cnnBert") /\ Succeeded("timeseries")

\* C10 (as claimed): in every assessment returned, harmIndex and uncertainty
\* are integers and riskLevel is one of Low, Medium, High.
C10_IntegerScores ==
    response.status = 200 =>
        /\ IsInteger(response.data.assessment.harmIndex)
        /\ IsInteger(response.data.assessment.uncertainty)
        /\ response.data.assessment.riskLevel \in RiskLevels


\* C11 (as claimed): for valid signals in [0,1] the harm index lies in 0..100.
C11_ScoreInRange ==
    pc = "pureDone" =>
        /\ IsInteger(harmAssessment.harmIndex)
        /\ harmAssessment.harmIndex.n >= 0
        /\ harmAssessment.harmIndex.n <= 100

\* C12: when all five signal producers are unreachable, the assessment built
\* from the defaults alone has risk level Low.
C12_DefaultsAreLow ==
    (pc = "done" /\ response.status = 200 /\ \A k \in Kinds : Failed(k))
    => /\ response.data.assessment.riskLevel = "Low"
       /\ IsInteger(response.data.assessment.harmIndex)
       /\ response.data.assessment.harmIndex.n <= 30

C12_Witness ==
    /\ pc = "done" /\ response.status = 200
    /\ \A k \in Kinds : Failed(k)
    /\ response.data.assessment.harmIndex = Int2(23)

----------------------------------------------------------------------------
(* Properties of the outcome predictor, checked under PureSpec *)

FallbackOutcome == [outcome |-> "Limited behavioral impact", probability |-> "Low"]

Has(seq, e) == \E i \in 1..Len(seq) : seq[i] = e

FearFired(input)  == Hundredths(input.emotionScores.fear) > 60
AngerFired(input) == Hundredths(input.emotionScores.anger) > 60
SpreadFired(input) == input.intentAnalysis.type \in {"Alarmist", "Inciting"}
ActionFired(input) == input.intentAnalysis.type = "Action-oriented"

\* C13: the outcome list is never empty; the fallback entry is in it iff none
\* of the four rules fired, and then it is the only entry.
C13_FallbackOnly ==
    pc = "pureDone" =>
        LET o == harmAssessment.pastOutcomes
            none == /\ Hundredths(fuseInput.emotionScores.fear) <= 60
                    /\ Hundredths(fuseInput.emotionScores.anger) <= 60
                    /\ fuseInput.intentAnalysis.type
                          \notin {"Alarmist", "Inciting", "Action-oriented"}
        IN  /\ Len(o) >= 1
            /\ Has(o, FallbackOutcome) <=> none
            /\ (\E i \in 1..Len(o) : o[i].outcome = "Limited behavioral impact") <=> none
            /\ Has(o, FallbackOutcome) => o = <<FallbackOutcome>>

\* fear and anger exactly at the threshold, which does not fire
C13_Witness ==
    /\ pc = "pureDone"
    /\ fuseInput.emotionScores.fear = Pct(60)
    /\ fuseInput.emotionScores.anger = Pct(60)
    /\ fuseInput.intentAnalysis.type = "Persuasive"
    /\ harmAssessment.pastOutcomes = <<FallbackOutcome>>

\* the four rule entries in their fixed order, each with whether it fired
RuleEntries(input, h) ==
    << [fired |-> FearFired(input),
        entry |-> [outcome |-> "Panic behavior or anxiety",
                   probability |-> IF h > 60 THEN "High" ELSE "Medium"]],
       [fired |-> AngerFired(input),
        entry |-> [outcome |-> "Social unrest or confrontational behavior",
                   probability |-> IF h > 70 THEN "High" ELSE "Medium"]],
       [fired |-> SpreadFired(input),
        entry |-> [outcome |-> "Rapid misinformation spread", probability |-> "High"]],
       [fired |-> ActionFired(input),
        entry |-> [outcome |-> "Inappropriate action without verification",
                   probability |-> "Medium"]] >>

WasFired(r) == r.fired

FiredEntries(input, h) ==
    LET sel == SelectSeq(RuleEntries(input, h), WasFired)
    IN  [i \in 1..Len(sel) |-> sel[i].entry]

\* C14: the outcome list holds exactly the entries whose rule fired, once
\* each, in the order panic, unrest, spread, action, with the stated
\* probabilities; the rules fire independently.
C14_RuleEntries ==
    pc = "pureDone" =>
        LET o == harmAssessment.pastOutcomes
            e == FiredEntries(fuseInput, harmAssessment.harmIndex.n)
        IN  IF Len(e) > 0 THEN o = e
            ELSE \A i \in 1..Len(o) : \A j \in 1..4 :
                    o[i].outcome # RuleEntries(fuseInput, 0)[j].entry.outcome

\* three rules fire at once, with a score between the two thresholds
C14_Witness ==
    /\ pc = "pureDone"
    /\ FearFired(fuseInput) /\ AngerFired(fuseInput) /\ SpreadFired(fuseInput)
    /\ harmAssessment.harmIndex.n > 60 /\ harmAssessment.harmIndex.n <= 70
    /\ Len(harmAssessment.pastOutcomes) = 3
    /\ harmAssessment.pastOutcomes[1].probability = "High"
    /\ harmAssessment.pastOutcomes[2].probability = "Medium"


----------------------------------------------------------------------------
(* End-to-end scenarios and the uncertainty band, checked under PureSpec *)

PanicLabel  == "Panic behavior or anxiety"
ActionLabel == "Inappropriate action without verification"

HasOutcome(o, label) == \E i \in 1..Len(o) : o[i].outcome = label

\* scenario C: moderate fear, the other emotions low, an action-oriented
\* intent with an implicit CTA and coded language, little similarity
ScenarioC(input) ==
    /\ input.emotionScores.fear = Pct(50)
    /\ Hundredths(input.emotionScores.anger) <= 10
    /\ input.intentAnalysis.type = "Action-oriented"
    /\ input.intentAnalysis.hasImplicitCTA = Bool(TRUE)
    /\ input.intentAnalysis.dogWhistleProbability = Pct(70)
    /\ input.truthVerification.similarityToFalseNarratives = Pct(30)
    /\ input.truthVerification.evidenceConfidence = "Medium"

\* C15 (as claimed): in scenario C the harm index is between 40 and 60, the
\* risk level is Medium and the outcomes hold both the fear-driven and the
\* action-oriented entry.
C15_ScenarioC_Original ==
    (pc = "pureDone" /\ ScenarioC(fuseInput)
       /\ Hundredths(fuseInput.cnnHarmScore) <= 60) =>
        /\ harmAssessment.harmIndex.n >= 40 /\ harmAssessment.harmIndex.n <= 60
        /\ harmAssessment.riskLevel = "Medium"
        /\ HasOutcome(harmAssessment.pastOutcomes, PanicLabel)
        /\ HasOutcome(harmAssessment.pastOutcomes, ActionLabel)

\* C15 (amended): in scenario C with a pattern harm score of at most 0.6 (or
\* none) the harm index is between 40 and 60, the risk level is Medium, and
\* the outcomes hold the action-oriented entry and no fear-driven entry, fear
\* 0.5 not exceeding 0.6.
C15_ScenarioC ==
    (pc = "pureDone" /\ ScenarioC(fuseInput)
       /\ Hundredths(fuseInput.cnnHarmScore) <= 60) =>
        /\ IsInteger(harmAssessment.harmIndex)
        /\ harmAssessment.harmIndex.n >= 40 /\ harmAssessment.harmIndex.n <= 60
        /\ harmAssessment.riskLevel = "Medium"
        /\ ~HasOutcome(harmAssessment.pastOutcomes, PanicLabel)
        /\ harmAssessment.pastOutcomes = <<[outcome |-> ActionLabel, probability |-> "Medium"]>>

C15_Witness ==
    /\ pc = "pureDone" /\ ScenarioC(fuseInput)
    /\ fuseInput.emotionScores.anger = Pct(10)
    /\ fuseInput.intentAnalysis.hasExplicitCTA = Bool(FALSE)
    /\ fuseInput.truthVerification.contradictorySources = Bool(FALSE)
    /\ fuseInput.cnnHarmScore = Pct(30)
    /\ harmAssessment.harmIndex = Int2(47)

\* scenario A: high anger and fear, an inciting intent with an explicit CTA,
\* high similarity, low confidence, pattern harm 0.6
ScenarioA(input) ==
    /\ input.emotionScores.anger = Pct(75)
    /\ input.emotionScores.fear = Pct(70)
    /\ input.intentAnalysis.type = "Inciting"
    /\ input.intentAnalysis.hasExplicitCTA = Bool(TRUE)
    /\ input.truthVerification.similarityToFalseNarratives = Pct(85)
    /\ input.truthVerification.evidenceConfidence = "Low"
    /\ input.truthVerification.contradictorySources = Bool(FALSE)
    /\ input.cnnHarmScore = Pct(60)

\* C16: in scenario A the harm index is between 70 and 90 and the risk level
\* is High, whatever the dog-whistle probability.
C16_ScenarioA ==
    (pc = "pureDone" /\ ScenarioA(fuseInput)) =>
        /\ IsInteger(harmAssessment.harmIndex)
        /\ harmAssessment.harmIndex.n >= 70 /\ harmAssessment.harmIndex.n <= 90
        /\ harmAssessment.riskLevel = "High"

C16_Witness ==
    /\ pc = "pureDone" /\ ScenarioA(fuseInput)
    /\ fuseInput.intentAnalysis.dogWhistleProbability = Pct(10)
    /\ harmAssessment.harmIndex = Int2(83)

\* 400 times emotionVolatility*5 + truthUncertainty*5, as an integer
ClaimBand400(input) ==
    LET a == Hundredths(input.emotionScores.anger)
        f == Hundredths(input.emotionScores.fear)
        tu100 == Least(100, ClaimConfidence(input.truthVerification.evidenceConfidence)
                            + (IF input.truthVerification.contradictorySources = Bool(TRUE)
                               THEN 15 ELSE 0))
    IN  12 * a + 11 * f + 20 * tu100

\* C17: uncertainty = 10 + round(emotionVolatility*5 + truthUncertainty*5),
\* with the capped truthUncertainty of the score and no upper clamp.
C17_UncertaintyBand ==
    pc = "pureDone" =>
        LET u == harmAssessment.uncertainty
            t == ClaimBand400(fuseInput)
        IN  /\ IsInteger(u)
            /\ 400 * (u.n - 10) <= t + 200
            /\ t + 200 < 400 * (u.n - 10) + 400

\* the largest band: 10 + round(5.75 + 4.75)
C17_Witness ==
    /\ pc = "pureDone"
    /\ fuseInput.emotionScores.anger = Pct(100)
    /\ fuseInput.emotionScores.fear = Pct(100)
    /\ fuseInput.truthVerification.evidenceConfidence = "Low"
    /\ fuseInput.truthVerification.contradictorySources = Bool(TRUE)
    /\ harmAssessment.uncertainty = Int2(21)


----------------------------------------------------------------------------
(* Properties of the narrative composer, checked under PureSpec *)

EmotionClauses == {"high emotional intensity", "moderate emotional intensity",
                   "low emotional intensity"}

\* the gated clauses in their fixed order, each with whether its gate is met
GatedClauses(input) ==
    LET ex  == input.intentAnalysis.hasExplicitCTA = Bool(TRUE)
        im  == input.intentAnalysis.hasImplicitCTA = Bool(TRUE)
        dw  == Hundredths(input.intentAnalysis.dogWhistleProbability)
        sim == Hundredths(input.truthVerification.similarityToFalseNarratives)
    IN  << [fired |-> ex, entry |-> "explicit calls to action"],
           [fired |-> im /\ ~ex, entry |-> "implicit calls to action"],
           [fired |-> dw > 60, entry |-> "coded language or dog-whistles"],
           [fired |-> sim > 70, entry |-> "high similarity to known false narratives"],
           [fired |-> sim > 40 /\ sim <= 70, entry |-> "moderate similarity to debunked claims"],
           [fired |-> input.truthVerification.contradictorySources = Bool(TRUE),
            entry |-> "contradict or do not support"] >>

MetClauses(input) ==
    LET sel == SelectSeq(GatedClauses(input), WasFired)
    IN  [i \in 1..Len(sel) |-> sel[i].entry]

\* C18: the narrative is one emotional-intensity clause followed by exactly
\* the clauses whose gate is met, once each, in the order CTA, dog-whistle,
\* similarity, contradictory sources; the explicit and the implicit CTA clause
\* never both appear, nor the high and the moderate similarity clause.
C18_NarrativeClauses ==
    pc = "pureDone" =>
        LET e == harmAssessment.explanation
        IN  /\ Len(e) >= 1
            /\ e[1] \in EmotionClauses
            /\ Cardinality({i \in 1..Len(e) : e[i] \in EmotionClauses}) = 1
            /\ Tail(e) = MetClauses(fuseInput)
            /\ Cardinality({e[i] : i \in 1..Len(e)}) = Len(e)
            /\ ~(Has(e, "explicit calls to action") /\ Has(e, "implicit calls to action"))
            /\ ~(/\ Has(e, "high similarity to known false narratives")
                 /\ Has(e, "moderate similarity to debunked claims"))

\* every gate met, both CTA flags set
C18_Witness ==
    /\ pc = "pureDone"
    /\ fuseInput.intentAnalysis.hasExplicitCTA = Bool(TRUE)
    /\ fuseInput.intentAnalysis.hasImplicitCTA = Bool(TRUE)
    /\ harmAssessment.explanation =
          <<"high emotional intensity", "explicit calls to action",
            "coded language or dog-whistles",
            "high similarity to known false narratives", "contradict or do not support">>

\* no signal crosses its threshold
AllBelow(input) ==
    /\ Hundredths(input.emotionScores.anger) <= 30
    /\ Hundredths(input.emotionScores.fear) <= 30
    /\ input.intentAnalysis.hasExplicitCTA = Bool(FALSE)
    /\ input.intentAnalysis.hasImplicitCTA = Bool(FALSE)
    /\ Hundredths(input.intentAnalysis.dogWhistleProbability) <= 60
    /\ Hundredths(input.truthVerification.similarityToFalseNarratives) <= 40
    /\ input.truthVerification.contradictorySources = Bool(FALSE)

\* C19 (as claimed): when no signal crosses its threshold the narrative holds
\* no clause at all.
C19_NoClause_Original ==
    (pc = "pureDone" /\ AllBelow(fuseInput)) => Len(harmAssessment.explanation) = 0

\* C19 (amended): when no signal crosses its threshold the narrative holds
\* exactly one clause, the low-emotional-intensity one, and no CTA,
\* dog-whistle, similarity or contradiction clause.
C19_OnlyLowIntensity ==
    (pc = "pureDone" /\ AllBelow(fuseInput)) =>
        harmAssessment.explanation = <<"low emotional intensity">>

\* every signal exactly at its threshold
C19_Witness ==
    /\ pc = "pureDone"
    /\ fuseInput.emotionScores.anger = Pct(30)
    /\ fuseInput.emotionScores.fear = Pct(30)
    /\ fuseInput.intentAnalysis.dogWhistleProbability = Pct(60)
    /\ fuseInput.truthVerification.similarityToFalseNarratives = Pct(40)
    /\ AllBelow(fuseInput)
    /\ harmAssessment.explanation = <<"low emotional intensity">>

----------------------------------------------------------------------------
(* The optional pattern signal, checked under FullSpec *)

\* harmIndex, riskLevel and uncertainty of an assessment
Scores(a) == <<a.harmIndex, a.riskLevel, a.uncertainty>>

\* C20: without a pattern harm probability the pattern term is 0: harmIndex,
\* riskLevel and uncertainty are those computed with probability 0 and the
\* same other signals, also for a request whose pattern producer answered
\* without a harm score.
C20_AbsentPatternIsZero ==
    /\ (pc = "pureDone" /\ fuseInput.cnnHarmScore = Undefined) =>
          /\ Scores(harmAssessment)
               = Scores(computeHarmIndex([fuseInput EXCEPT !.cnnHarmScore = Zero]))
          /\ IsInteger(harmAssessment.harmIndex)
          /\ 100 * harmAssessment.harmIndex.n <= ClaimSum100(fuseInput) + 50
          /\ ClaimSum100(fuseInput) + 50 < 100 * harmAssessment.harmIndex.n + 100
    /\ (/\ pc = "done" /\ response.status = 200
        /\ calls["cnnBert"].st = "fulfilled"
        /\ calls["cnnBert"].data.shape \in {"object", "string"}
        /\ calls["cnnBert"].data.harm_score = Undefined) =>
          /\ fuseInput.cnnHarmScore = Zero
          /\ Scores(response.data.assessment)
               = Scores(computeHarmIndex([emotionScores |-> fuseInput.emotionScores,
                                          intentAnalysis |-> fuseInput.intentAnalysis,
                                          truthVerification |-> fuseInput.truthVerification,
                                          cnnHarmScore |-> Zero,
                                          text |-> req.text]))

C20_Witness ==
    /\ pc = "pureDone"
    /\ fuseInput.cnnHarmScore = Undefined
    /\ ScenarioC(fuseInput)
    /\ harmAssessment.harmIndex.n >= 41

\* the request whose pattern producer answered an object without harm_score
C20_RequestWitness ==
    /\ pc = "done" /\ response.status = 200
    /\ calls["cnnBert"] = Fulfilled(Malformed("cnnBert"))
    /\ \A k \in Kinds \ {"cnnBert"} : Failed(k)
    /\ response.data.assessment.harmIndex = Int2(17)

----------------------------------------------------------------------------
(* The walkthrough's formula, checked under PureSpec *)

\* four hundred times Emotion Volatility x 25 + Intent Risk x 30 +
\* Historical Harm x 30 + Truth Uncertainty x 15, as an integer
ClaimWalkthrough400(input) ==
    LET a   == Hundredths(input.emotionScores.anger)
        f   == Hundredths(input.emotionScores.fear)
        dw  == Hundredths(input.intentAnalysis.dogWhistleProbability)
        s   == Hundredths(input.truthVerification.similarityToFalseNarratives)
        cta == IF input.intentAnalysis.hasExplicitCTA = Bool(TRUE) THEN 15
               ELSE IF input.intentAnalysis.hasImplicitCTA = Bool(TRUE) THEN 10 ELSE 0
        ir500 == Least(500, 5 * (ClaimBase(input.intentAnalysis.type) + cta) + dw)
        tu100 == Least(100, ClaimConfidence(input.truthVerification.evidenceConfidence)
                            + (IF input.truthVerification.contradictorySources = Bool(TRUE)
                               THEN 15 ELSE 0))
    IN  (60 * a + 55 * f) + 24 * ir500 + 120 * s + 60 * tu100

\* C21 (as claimed): the harm index is the rounded sum Emotion Volatility x 25
\* + Intent Risk x 30 + Historical Harm x 30 + Truth Uncertainty x 15 of the
\* walkthrough, here for inputs without a pattern harm score.
C21_WalkthroughFormula ==
    (pc = "pureDone" /\ fuseInput.cnnHarmScore = Undefined) =>
        LET h == harmAssessment.harmIndex
            t == ClaimWalkthrough400(fuseInput)
        IN  /\ IsInteger(h)
            /\ 400 * h.n <= t + 200
            /\ t + 200 < 400 * h.n + 400

----------------------------------------------------------------------------
(* Properties of concurrent invocations, checked under PairSpec *)

\* the parts of an assessment that C22 names
Verdict(a) == <<a.harmIndex, a.riskLevel, a.uncertainty, a.pastOutcomes, a.explanation>>

AllSettled(cs) == \A k \in Kinds : cs[k].st \in {"fulfilled", "rejected"}

\* both invocations answered 200 on the same text and the same producer results
SameResults ==
    /\ pc = "done" /\ peer.pc = "done"
    /\ response.status = 200 /\ peer.response.status = 200
    /\ req = peer.req
    /\ AllSettled(calls) /\ calls = peer.calls

\* C22: two requests with the same text whose producers gave the same results
\* get the same score, tier, uncertainty, outcomes and narrative, in whatever
\* order the calls of each completed or failed.
C22_OrderIndependent ==
    SameResults => Verdict(response.data.assessment) = Verdict(peer.response.data.assessment)

\* the same mix of failures and answers in both, differing only in the
\* enrichment call
C22_Witness ==
    /\ SameResults
    /\ calls["emotion"].st = "rejected" /\ calls["intent"].st = "fulfilled"
    /\ calls["rag"].st = "rejected" /\ calls["cnnBert"].st = "fulfilled"
    /\ llm.st = "rejected" /\ peer.llm.st = "fulfilled"
    /\ IsInteger(response.data.assessment.harmIndex)

\* the signal an assessment must carry for producer k, given the promises cs
ExpectedFrom(cs, k) == IF cs[k].st = "rejected" THEN ClaimDefault(k) ELSE cs[k].data

\* the success body that text, promises cs and enrichment promise p call for
OwnData(text, cs, p) ==
    [cnnBertResult |-> ExpectedFrom(cs, "cnnBert"),
     timeseriesData |-> ExpectedFrom(cs, "timeseries"),
     assessment |-> computeHarmIndex([emotionScores |-> ExpectedFrom(cs, "emotion"),
                                      intentAnalysis |-> ExpectedFrom(cs, "intent"),
                                      truthVerification |-> ExpectedFrom(cs, "rag"),
                                      cnnHarmScore |-> ExpectedFrom(cs, "cnnBert").harm_score,
                                      text |-> text]),
     llmExplanation |-> IF p.st = "fulfilled" THEN p.data ELSE Blank("llm", "null")]

\* C23: with two requests in progress at once, each response is the one its
\* own text and its own producer results call for, whatever the other request
\* received.
C23_RequestScoped ==
    /\ pc = "done" => response = Success(OwnData(req.text, calls, llm))
    /\ peer.pc = "done" =>
          peer.response = Success(OwnData(peer.req.text, peer.calls, peer.llm))

\* both answered, on different producer results
C23_Witness ==
    /\ pc = "done" /\ peer.pc = "done"
    /\ response.status = 200 /\ peer.response.status = 200
    /\ \A k \in Kinds : calls[k].st = "fulfilled" /\ peer.calls[k].st = "rejected"
    /\ response.data.assessment.harmIndex # peer.response.data.assessment.harmIndex

----------------------------------------------------------------------------
(* The barrier and the calls of one request, checked under Spec *)

\* C24: computeHarmIndex is not called before all five calls have settled; a
\* failed call neither answers nor aborts the request while others are
\* pending, and the calls that then succeed give fusion their own bodies, not
\* the defaults.
C24_Barrier ==
    /\ fuseCount > 0 => AllSettled(calls)
    /\ (pc = "awaitAll" /\ \E k \in Kinds : Failed(k)) =>
          /\ fuseCount = 0
          /\ response = NoResponse
    /\ (fuseCount > 0 /\ \E k \in Kinds : Failed(k)) =>
          /\ Succeeded("emotion") => fuseInput.emotionScores = calls["emotion"].data
          /\ Succeeded("intent") => fuseInput.intentAnalysis = calls["intent"].data
          /\ Succeeded("rag") => fuseInput.truthVerification = calls["rag"].data
          /\ Succeeded("cnnBert") =>
                /\ fuseInput.cnnHarmScore = calls["cnnBert"].data.harm_score
                /\ cnnBertResult = calls["cnnBert"].data
          /\ Succeeded("timeseries") => timeseriesData = calls["timeseries"].data

\* one call failed, the four others answered and were used
C24_Witness ==
    /\ pc = "done" /\ response.status = 200 /\ fuseCount = 1
    /\ Failed("emotion")
    /\ \A k \in Kinds \ {"emotion"} : calls[k] = Fulfilled(WellFormed(k, 2))
    /\ fuseInput.emotionScores = DefaultEmotion
    /\ fuseInput.intentAnalysis = WellFormed("intent", 2)
    /\ response.data.timeseriesData = WellFormed("timeseries", 2)

\* C25: for one valid request every producer is sent exactly one request and
\* the enrichment producer at most one; a call that failed is not sent again.
C25_CalledOnce ==
    /\ \A k \in Kinds : issued[k] = IF pc = "idle" \/ ClaimInvalid(req.text) THEN 0 ELSE 1
    /\ llmIssued = IF fuseCount > 0 THEN 1 ELSE 0
    /\ fuseCount <= 1
    /\ \A k \in Kinds : Failed(k) => issued[k] = 1
    /\ llm.st = "rejected" => llmIssued = 1

\* every call of the request failed, the enrichment call too
C25_Witness ==
    /\ pc = "done" /\ response.status = 200
    /\ \A k \in Kinds : Failed(k) /\ issued[k] = 1
    /\ llm.st = "rejected" /\ llmIssued = 1


PanicEntries(a) ==
    {i \in 1..Len(a.pastOutcomes) : a.pastOutcomes[i].outcome = PanicLabel}

\* the panic outcome of an assessment is High exactly when its tier is High
PanicMatchesTier(a) ==
    \A i \in PanicEntries(a) : (a.pastOutcomes[i].probability = "High") <=> (a.riskLevel = "High")

\* C26 (as claimed): in every assessment that holds the panic outcome, that
\* outcome's probability is High if and only if the risk level is High.
C26_PanicMatchesTier ==
    /\ pc = "pureDone" => PanicMatchesTier(harmAssessment)
    /\ fuseCount > 0 => PanicMatchesTier(harmAssessment)

----------------------------------------------------------------------------
(* What the scores depend on *)

\* a fusion input with everything but the ten signals of C27 blanked
Erased(input) ==
    [emotionScores |-> EmotionOf("object", input.emotionScores.anger, input.emotionScores.fear,
                                 Zero, Zero, Zero),
     intentAnalysis |-> IntentOf("object", input.intentAnalysis.type,
                                 input.intentAnalysis.hasExplicitCTA,
                                 input.intentAnalysis.hasImplicitCTA,
                                 input.intentAnalysis.dogWhistleProbability),
     truthVerification |-> TruthOf("object", input.truthVerification.similarityToFalseNarratives,
                                   input.truthVerification.evidenceConfidence,
                                   input.truthVerification.contradictorySources, <<>>),
     cnnHarmScore |-> input.cnnHarmScore,
     text |-> NoText]

\* C27: harmIndex, riskLevel and uncertainty of a response are those of the
\* ten signals alone: the text, joy, sadness, neutral, the similar claims, the
\* temporal signal, the other pattern fields and the enrichment outcome do not
\* change them.
C27_DependsOnlyOnSignals ==
    (pc = "done" /\ response.status = 200) =>
        Scores(response.data.assessment) = Scores(computeHarmIndex(Erased(fuseInput)))

\* an answered request whose other fields are all present and not blank
C27_Witness ==
    /\ pc = "done" /\ response.status = 200
    /\ req.text = TextOf("string", "They are planning something tonight.")
    /\ Failed("emotion") /\ fuseInput.emotionScores.sadness = Pct(10)
    /\ calls["rag"] = Fulfilled(WellFormed("rag", 1))
    /\ calls["timeseries"] = Fulfilled(WellFormed("timeseries", 1))
    /\ calls["cnnBert"] = Fulfilled(WellFormed("cnnBert", 1))
    /\ llm.st = "fulfilled"
    /\ IsInteger(response.data.assessment.harmIndex)


\* the values a signal is raised to
RaiseValues(seq) == Levels(seq) \cup MonoValues

Above(x, seq) == {v \in RaiseValues(seq) : Hundredths(v) > Hundredths(x)}

ConfidenceRank(conf) == CASE conf = "High" -> 1 [] conf = "Medium" -> 2 [] conf = "Low" -> 3

TierRank(tier) == CASE tier = "Low" -> 1 [] tier = "Medium" -> 2 [] tier = "High" -> 3

\* every input that differs from input in one signal, raised
Raised(input) ==
    {[input EXCEPT !.emotionScores.anger = v] : v \in Above(input.emotionScores.anger, AngerLevels)}
    \cup {[input EXCEPT !.emotionScores.fear = v] : v \in Above(input.emotionScores.fear, FearLevels)}
    \cup {[input EXCEPT !.intentAnalysis.dogWhistleProbability = v] :
             v \in Above(input.intentAnalysis.dogWhistleProbability, DogLevels)}
    \cup {[input EXCEPT !.truthVerification.similarityToFalseNarratives = v] :
             v \in Above(input.truthVerification.similarityToFalseNarratives, SimLevels)}
    \cup {[input EXCEPT !.cnnHarmScore = v] : v \in Above(input.cnnHarmScore, PatternLevels)}
    \cup (IF input.intentAnalysis.hasExplicitCTA = Bool(FALSE)
          THEN {[input EXCEPT !.intentAnalysis.hasExplicitCTA = Bool(TRUE)]} ELSE {})
    \cup (IF input.intentAnalysis.hasImplicitCTA = Bool(FALSE)
          THEN {[input EXCEPT !.intentAnalysis.hasImplicitCTA = Bool(TRUE)]} ELSE {})
    \cup (IF input.truthVerification.contradictorySources = Bool(FALSE)
          THEN {[input EXCEPT !.truthVerification.contradictorySources = Bool(TRUE)]} ELSE {})
    \cup {[input EXCEPT !.truthVerification.evidenceConfidence = cf] :
             cf \in {c \in Confidences :
                        ConfidenceRank(c) > ConfidenceRank(input.truthVerification.evidenceConfidence)}}

\* C28: raising one risk signal of a valid input, the others fixed, never
\* lowers harmIndex and never moves riskLevel to a lower tier.
C28_Monotone ==
    pc = "pureDone" =>
        \A y \in Raised(fuseInput) :
            LET b == harmIndexFor(y)
            IN  /\ IsInteger(b) /\ IsInteger(harmAssessment.harmIndex)
                /\ b.n >= harmAssessment.harmIndex.n
                /\ TierRank(riskLevelOf(b)) >= TierRank(harmAssessment.riskLevel)

\* an input at the top of the Medium tier that has a raise into High and a
\* raise that changes nothing
C28_Witness ==
    /\ pc = "pureDone"
    /\ harmAssessment.riskLevel = "Medium"
    /\ \E y \in Raised(fuseInput) : riskLevelOf(harmIndexFor(y)) = "High"
    /\ \E y \in Raised(fuseInput) : harmIndexFor(y) = harmAssessment.harmIndex

----------------------------------------------------------------------------
(* Properties of the ChatInterface, checked under UiSpec *)

\* the React state of the component
UiState(u) == <<u.inputText, u.loading, u.assessment, u.error>>

UiExclusive ==
    /\ ~(ui.assessment.some /\ ui.error.some)
    /\ ui.inFlight \in {0, 1}
    /\ ui.loading <=> ui.inFlight = 1
    /\ ui.inFlight = 1 => ~ui.assessment.some /\ ~ui.error.some

\* a request starts only from a non-blank input with none in flight
UiStarts ==
    ui'.sent # ui.sent =>
        /\ Trim(ui.inputText) # "" /\ ui.inFlight = 0
        /\ ui'.sent = ui.sent + 1 /\ ui'.inFlight = 1 /\ ui'.loading

\* when the request settles, loading is false and one of the two is set
UiSettles ==
    (ui.inFlight = 1 /\ ui'.inFlight = 0) =>
        /\ ~ui'.loading
        /\ ui'.assessment.some # ui'.error.some

\* a submit on a blank input starts nothing and changes nothing
UiBlankSubmit ==
    (ui'.last = "submit" /\ Trim(ui.inputText) = "") =>
        /\ UiState(ui') = UiState(ui)
        /\ ui'.sent = ui.sent /\ ui'.inFlight = ui.inFlight

\* C29: assessment and error are never both set; while a request is in
\* flight loading is true, both are null and no second request starts; when
\* it settles loading is false and exactly one of the two is set; a submit
\* with a blank input starts no request and changes no state.
C29_UiState == []UiExclusive /\ [][UiStarts /\ UiSettles /\ UiBlankSubmit]_vars

\* a second request, made while an assessment was shown, ended in an error
C29_Witness ==
    /\ ui.sent = 2 /\ ui.last = "arrive" /\ ~ui.loading
    /\ ui.error = Some("An unexpected error occurred")
    /\ ~ui.assessment.some

\* a submit on whitespace has just been ignored
C29_BlankWitness ==
    /\ ui.last = "submit" /\ ui.inputText = " " /\ ui.sent = 1 /\ ui.assessment.some

----------------------------------------------------------------------------
(* The ChatbotPanel on the answers of the handler, checked under Spec *)

\* the answer carries pattern and temporal data but no enrichment result
WithoutEnrichment(data) ==
    /\ data.llmExplanation.shape = "null"
    /\ Len(data.cnnBertResult.cnn_patterns) > 0
    /\ data.timeseriesData.historical_context \notin {"undefined", ""}

\* C30: when llmExplanation is null but the assessment carries pattern and
\* temporal data, the ChatbotPanel still presents that data.
C30_SignalsStillShown ==
    (pc = "done" /\ response.status = 200 /\ WithoutEnrichment(response.data)) =>
        {"Detected Patterns", "Historical Context"} \subseteq PanelOf(response.data)

\* with the enrichment result present the same data is shown
C30_ShownWithEnrichment ==
    (pc = "done" /\ response.status = 200 /\ response.data.llmExplanation.shape = "object"
       /\ Len(response.data.cnnBertResult.cnn_patterns) > 0
       /\ response.data.timeseriesData.historical_context \notin {"undefined", ""}) =>
        {"Detected Patterns", "Historical Context"} \subseteq PanelOf(response.data)

C30_EnrichedWitness ==
    /\ pc = "done" /\ response.status = 200
    /\ PanelOf(response.data) =
         {"Analysis Summary", "Key Insights", "Detected Patterns", "Historical Context",
          "Risk Forecast"}

====
